---- MODULE Spec2Model ----
(***************************************************************************)
(* Texas Hold'em table of term-project-gnomies-resurrection-1.             *)
(*                                                                         *)
(* The state is the content of the PostgreSQL tables of ONE game           *)
(* (games, game_players, player_cards, community_cards) plus the HTTP      *)
(* response of the last request.  Every action is one HTTP / socket        *)
(* handler, translated from the TypeScript sources, with every database    *)
(* call it makes.  A transaction that throws is rolled back.               *)
(***************************************************************************)
EXTENDS Integers, Sequences, FiniteSets, TLC

\* ------------------------------------------------------------------ bounds
MaxUsers == 3        \* users that may send requests: 1..MaxUsers, user 1 created the game
MaxShuffle == 1      \* number of deck orders CREATE_DECK may produce in the model
MaxUnfold == 1       \* betting requests a player sends after the whole table has folded
MaxRequests == 3     \* betting requests sent while transactions overlap (SpecConc)
MaxSeats == 4        \* players of a hand on the river (SpecRiver)

\* ------------------------------------------------------- program constants
NULL == 0            \* SQL NULL / JS null for ids and positions (real ids are >= 1)
BUY_IN == 1000       \* JOIN_GAME: player_money
SMALL_BLIND == 10
BIG_BLIND == 20
DECK_SIZE == 52      \* rows of table cards: 4 suits x 13 ranks
FOLDED == -1         \* bet_amount of a folded player

Users == 1 .. MaxUsers
Cards == 1 .. DECK_SIZE
\* amounts a raise request may carry: 0 stands for a missing or non-positive
\* amount, 30 is above the big blind and below twice the big blind, 1200 is
\* more than any stack
RaiseAmounts == {0, 30, 1200}

VARIABLES
    game,             \* the row of table games
    game_players,     \* rows of table game_players, in insertion order
    player_cards,     \* rows of table player_cards, indexed by card_id (<<>> before CREATE_DECK)
    community_cards,  \* rows of table community_cards: the set of card_ids
    response,         \* the answer to the last request
    unfolds,          \* betting requests sent so far by a player who had folded
    inflight,         \* SpecConc: the betting requests whose transaction has begun
    scheduled,        \* game-cleanup.ts: the Set scheduled
    timers,           \* game-cleanup.ts: the callbacks given to setTimeout, not yet ended
    calls,            \* calls of scheduleGameCleanup per game since it was last unscheduled
    attempts          \* per game, the deletions attempted since it was last scheduled

vars == <<game, game_players, player_cards, community_cards, response, unfolds, inflight,
          scheduled, timers, calls, attempts>>

\* the state of services/game-cleanup.ts
cleanup == <<scheduled, timers, calls, attempts>>

\* the games scheduleGameCleanup is called for
MaxGames == 2
GameIds == 1 .. MaxGames

\* calls of scheduleGameCleanup for one game while it is scheduled
MaxCalls == 3

\* callbacks of setTimeout that have not ended
MaxTimers == 3

\* the module is loaded: nothing is scheduled
NoCleanup ==
    /\ scheduled = {}
    /\ timers = <<>>
    /\ calls = [g \in GameIds |-> 0]
    /\ attempts = [g \in GameIds |-> <<>>]

\* The database as one value: services are functions from database to database.
Db == [game |-> game, game_players |-> game_players,
       player_cards |-> player_cards, community_cards |-> community_cards]

\* ------------------------------------------------------------ SQL helpers
Range(s) == {s[i] : i \in DOMAIN s}

\* inflight without its i-th request
Without(s, i) == SubSeq(s, 1, i - 1) \o SubSeq(s, i + 1, Len(s))

RECURSIVE SumOver(_, _)
SumOver(f, S) == IF S = {} THEN 0
                 ELSE LET x == CHOOSE y \in S : TRUE IN f[x] + SumOver(f, S \ {x})

\* GET_PLAYER_IDS: no ORDER BY; the rows come back in insertion order
getPlayerIds(d) == [i \in DOMAIN d.game_players |-> d.game_players[i].user_id]

PlayerSet(d) == {d.game_players[i].user_id : i \in DOMAIN d.game_players}

PlayerRow(d, u) == CHOOSE r \in Range(d.game_players) : r.user_id = u

\* UPDATE game_players SET <field> = f(row) WHERE user_id = u
UpdatePlayer(d, u, F(_)) ==
    [d EXCEPT !.game_players =
        [i \in DOMAIN d.game_players |->
            IF d.game_players[i].user_id = u THEN F(d.game_players[i])
            ELSE d.game_players[i]]]

\* JOIN_GAME
JoinRow(u) == [user_id |-> u, player_money |-> BUY_IN, bet_amount |-> 0,
                  role |-> "player", position |-> NULL, has_acted |-> FALSE]
join(d, u) == [d EXCEPT !.game_players = Append(@, JoinRow(u))]

\* LEAVE_GAME
leave(d, u) == [d EXCEPT !.game_players = SelectSeq(@, LAMBDA r : r.user_id # u)]

\* ------------------------------------------------- db/games (index.ts, sql.ts)
\* GAME_BY_ID
get(d) == d.game

\* GET_CURRENT_TURN, with "?? null"
getCurrentTurn(d) == d.game.current_turn_user_id

\* SET_CURRENT_TURN
setCurrentTurn(d, u) == [d EXCEPT !.game.current_turn_user_id = u]

\* GET_PLAYER_POSITION, with "?? null"
getPlayerPosition(d, u) ==
    IF u \in PlayerSet(d) THEN PlayerRow(d, u).position ELSE NULL

\* SET_PLAYER_POSITION
setPlayerPosition(d, u, p) == UpdatePlayer(d, u, LAMBDA r : [r EXCEPT !.position = p])

\* UPDATE game_players SET role = ... (the statement is not among the sources;
\* its callers in startGame are)
setPlayerRole(d, u, role) == UpdatePlayer(d, u, LAMBDA r : [r EXCEPT !.role = role])

\* UPDATE_PLAYER_CHIPS with a negative amount
deductChips(d, u, amount) ==
    UpdatePlayer(d, u, LAMBDA r : [r EXCEPT !.player_money = @ - amount])

\* UPDATE_PLAYER_CHIPS with a positive amount
addChips(d, u, amount) ==
    UpdatePlayer(d, u, LAMBDA r : [r EXCEPT !.player_money = @ + amount])

\* UPDATE_PLAYER_BET
updatePlayerBet(d, u, amount) ==
    UpdatePlayer(d, u, LAMBDA r : [r EXCEPT !.bet_amount = amount])

\* UPDATE_POT that leaves pot_money as it was
addToPotDropped(d, amount) == d

\* UPDATE_POT
addToPot(d, amount) == [d EXCEPT !.game.pot_money = @ + amount]

SetMax(S) == CHOOSE x \in S : \A y \in S : y <= x
SetMin(S) == CHOOSE x \in S : \A y \in S : x <= y

\* GET_CURRENT_BET: MAX(bet_amount) over the rows with bet_amount > 0, "?? 0"
getCurrentBet(d) ==
    LET bets == {r.bet_amount : r \in {x \in Range(d.game_players) : x.bet_amount > 0}}
    IN IF bets = {} THEN 0 ELSE SetMax(bets)

\* GET_PLAYER_BET, "?? 0"
getPlayerBet(d, u) ==
    IF u \in PlayerSet(d) THEN PlayerRow(d, u).bet_amount ELSE 0

\* every bet is set to 0, the fold marks too
resetBetsAll(d) ==
    [d EXCEPT !.game_players =
        [i \in DOMAIN d.game_players |-> [d.game_players[i] EXCEPT !.bet_amount = 0]]]

\* RESET_BETS: folded players (bet_amount = -1) keep their mark
resetBets(d) ==
    [d EXCEPT !.game_players =
        [i \in DOMAIN d.game_players |->
            IF d.game_players[i].bet_amount >= 0
              THEN [d.game_players[i] EXCEPT !.bet_amount = 0]
              ELSE d.game_players[i]]]

\* UPDATE game_players SET has_acted = false (the statement is not among the
\* sources; its callers in startGame and dealCommunityCards are)
resetHasActed(d) ==
    [d EXCEPT !.game_players =
        [i \in DOMAIN d.game_players |-> [d.game_players[i] EXCEPT !.has_acted = FALSE]]]

\* has_acted = true for the player whose accepted action is being applied
\* (the statement is not among the sources; isBettingRoundComplete reads the
\* column)
markHasActed(d, u) == UpdatePlayer(d, u, LAMBDA r : [r EXCEPT !.has_acted = TRUE])

\* UPDATE_GAME_STATE
updateGameState(d, st) == [d EXCEPT !.game.state = st]

\* START_GAME
start(d, firstPlayerId) ==
    [d EXCEPT !.game.state = "pre-flop", !.game.current_turn_user_id = firstPlayerId]

\* END_GAME
endGame(d) == [d EXCEPT !.game.state = "game-over"]

\* GET_PLAYERS_WITH_STATS: ORDER BY position NULLS LAST, joined_at
RECURSIVE SortRows(_, _)
SortRows(gp, left) ==
    IF left = {} THEN <<>>
    ELSE LET key(i) == IF gp[i].position = NULL THEN DECK_SIZE + i ELSE gp[i].position
             first == CHOOSE i \in left :
                         \A j \in left : key(i) < key(j) \/ (key(i) = key(j) /\ i <= j)
         IN <<gp[first]>> \o SortRows(gp, left \ {first})
getPlayersWithStats(d) == SortRows(d.game_players, DOMAIN d.game_players)

\* the first player seated after position pos, folded or not
GET_NEXT_PLAYER_Folded(d, pos) ==
    LET cand == {r \in Range(d.game_players) : r.position # NULL /\ r.position > pos}
    IN IF cand = {} THEN NULL
       ELSE (CHOOSE r \in cand : \A q \in cand : r.position <= q.position).user_id

\* GET_NEXT_PLAYER: first non-folded player seated after position pos
GET_NEXT_PLAYER(d, pos) ==
    LET cand == {r \in Range(d.game_players) :
                    r.position # NULL /\ r.position > pos /\ r.bet_amount >= 0}
    IN IF cand = {} THEN NULL
       ELSE (CHOOSE r \in cand : \A q \in cand : r.position <= q.position).user_id

\* GET_FIRST_PLAYER: first non-folded player of the table
GET_FIRST_PLAYER(d) ==
    LET rows == SelectSeq(getPlayersWithStats(d), LAMBDA r : r.bet_amount >= 0)
    IN IF rows = <<>> THEN NULL ELSE rows[1].user_id

\* advanceTurn, from the query for the next player on: next is the row after
\* the current position, NULL when there is none
WrapAround(d, currentTurn, next) ==
    IF next # NULL THEN [ok |-> TRUE, db |-> setCurrentTurn(d, next), nextPlayerId |-> next]
    ELSE IF GET_FIRST_PLAYER(d) = NULL
      THEN [ok |-> TRUE, db |-> d, nextPlayerId |-> currentTurn]
    ELSE [ok |-> TRUE, db |-> setCurrentTurn(d, GET_FIRST_PLAYER(d)),
          nextPlayerId |-> GET_FIRST_PLAYER(d)]

\* advanceTurn: [ok, db, nextPlayerId]
advanceTurn(d) ==
    IF getCurrentTurn(d) = NULL THEN [ok |-> FALSE, db |-> d, nextPlayerId |-> NULL]
    ELSE IF getPlayerPosition(d, getCurrentTurn(d)) = NULL
      THEN [ok |-> FALSE, db |-> d, nextPlayerId |-> NULL]
    ELSE WrapAround(d, getCurrentTurn(d),
                    GET_NEXT_PLAYER(d, getPlayerPosition(d, getCurrentTurn(d))))

\* ------------------------------------------------- db/player-cards, db/community-cards
\* ROW_NUMBER() OVER (ORDER BY RANDOM()): the k-th deck order of the model
\* (c -> c * k mod 53 is a permutation of 1..52)
Shuffle(k) == [c \in Cards |-> (c * k) % (DECK_SIZE + 1)]

\* CREATE_DECK: one undealt row per card at a random position
createDeck(d, k) ==
    [d EXCEPT !.player_cards =
        [c \in Cards |-> [owner_player_id |-> NULL, position |-> Shuffle(k)[c]]]]

\* rows of the deck: owner_player_id IS NULL
Undealt(d) == {c \in DOMAIN d.player_cards : d.player_cards[c].owner_player_id = NULL}

RECURSIVE TopOf(_, _, _)
TopOf(pc, left, count) ==
    IF count = 0 \/ left = {} THEN <<>>
    ELSE LET c == CHOOSE x \in left : \A y \in left : pc[x].position <= pc[y].position
         IN <<c>> \o TopOf(pc, left \ {c}, count - 1)

\* A row of player_cards is named by its card here (id and card_id are one to
\* one within a game); the rows getCardsFromDeck returns are declared as
\* {id, card_id} and dealCommunityCards reads their card_id.
\* GET_CARDS_FROM_DECK: the first count undealt rows by position
getCardsFromDeck(d, count) == TopOf(d.player_cards, Undealt(d), count)

\* DEAL_CARDS without the owner: the rows only lose their deck position
dealCardsUnowned(d, cardIds, playerId) ==
    [d EXCEPT !.player_cards =
        [c \in DOMAIN d.player_cards |->
            IF c \in Range(cardIds)
              THEN [owner_player_id |-> NULL, position |-> NULL]
              ELSE d.player_cards[c]]]

\* DEAL_CARDS: the rows get an owner and lose their deck position
dealCards(d, cardIds, playerId) ==
    [d EXCEPT !.player_cards =
        [c \in DOMAIN d.player_cards |->
            IF c \in Range(cardIds)
              THEN [owner_player_id |-> playerId, position |-> NULL]
              ELSE d.player_cards[c]]]

\* GET_PLAYER_CARDS: ORDER BY c.sort_order (the card id)
HoleCards(d, u) == {c \in DOMAIN d.player_cards : d.player_cards[c].owner_player_id = u}
RECURSIVE Ascending(_)
Ascending(S) == IF S = {} THEN <<>> ELSE <<SetMin(S)>> \o Ascending(S \ {SetMin(S)})
getPlayerCards(d, u) == Ascending(HoleCards(d, u))

\* ADD_COMMUNITY_CARDS: (game_id, card_id) is the primary key of community_cards,
\* a second insert of a card fails: [ok, db]
addCommunityCards(d, cardIds) ==
    IF \/ \E i \in DOMAIN cardIds : cardIds[i] \in d.community_cards
       \/ \E i, j \in DOMAIN cardIds : i # j /\ cardIds[i] = cardIds[j]
      THEN [ok |-> FALSE, db |-> d]
      ELSE [ok |-> TRUE, db |-> [d EXCEPT !.community_cards = @ \cup Range(cardIds)]]

\* GET_COMMUNITY_CARDS: JOIN player_cards ... ORDER BY pc.position
getCommunityCards(d) == TopOf(d.player_cards, d.community_cards, Cardinality(d.community_cards))

\* ------------------------------------------------- services/game-service.ts
\* step 5 of startGame: two round-robin passes, one card per player and pass;
\* j counts the cards still to deal.  [ok, db]
RECURSIVE DealHoleCards(_, _, _)
DealHoleCards(d, playerIds, j) ==
    IF j = 0 THEN [ok |-> TRUE, db |-> d]
    ELSE LET n == Len(playerIds)
             dealt == 2 * n - j
             playerId == playerIds[(dealt % n) + 1]
             cards == getCardsFromDeck(d, 1)
         IN IF Len(cards) # 1 THEN [ok |-> FALSE, db |-> d]
            ELSE DealHoleCards(dealCards(d, <<cards[1]>>, playerId), playerIds, j - 1)

RECURSIVE SetPositions(_, _, _)
SetPositions(d, playerIds, i) ==
    IF i > Len(playerIds) THEN d
    ELSE SetPositions(setPlayerPosition(d, playerIds[i], i), playerIds, i + 1)

RECURSIVE SetOtherRoles(_, _, _, _)
SetOtherRoles(d, playerIds, special, i) ==
    IF i > Len(playerIds) THEN d
    ELSE SetOtherRoles(IF i \in special THEN d ELSE setPlayerRole(d, playerIds[i], "player"),
                       playerIds, special, i + 1)

\* the player who joined last acts first
DealtLastFirst(d0, dealt, firstPlayerId) ==
    IF ~dealt.ok THEN [ok |-> FALSE, db |-> d0, firstPlayerId |-> NULL]
    ELSE [ok |-> TRUE,
          db |-> resetHasActed(start(dealt.db,
                                     getPlayerIds(d0)[Len(getPlayerIds(d0))])),
          firstPlayerId |-> getPlayerIds(d0)[Len(getPlayerIds(d0))]]

\* steps 6 and 7 of startGame: dealt is the result of the deal, whose error
\* rolls the transaction back to d0
Dealt(d0, dealt, firstPlayerId) ==
    IF ~dealt.ok THEN [ok |-> FALSE, db |-> d0, firstPlayerId |-> NULL]
    ELSE [ok |-> TRUE, db |-> resetHasActed(start(dealt.db, firstPlayerId)),
          firstPlayerId |-> firstPlayerId]

\* startGame(gameId), one transaction: [ok, db, firstPlayerId].  k is the
\* order RANDOM() gives the deck.  Indices are 1-based here.
startGame(d, k) ==
    LET playerIds == getPlayerIds(d)
        n == Len(playerIds)
        dealerIndex == 1
        smallBlindIndex == IF n = 2 THEN 1 ELSE 2
        bigBlindIndex == IF n = 2 THEN 2 ELSE 3
        d1 == SetPositions(d, playerIds, 1)
        d2 == setPlayerRole(d1, playerIds[dealerIndex], "dealer")
        d3 == IF smallBlindIndex = dealerIndex
                THEN setPlayerRole(d2, playerIds[smallBlindIndex], "dealer")
                ELSE setPlayerRole(d2, playerIds[smallBlindIndex], "small_blind")
        d4 == updatePlayerBet(deductChips(d3, playerIds[smallBlindIndex], SMALL_BLIND),
                              playerIds[smallBlindIndex], SMALL_BLIND)
        d5 == setPlayerRole(d4, playerIds[bigBlindIndex], "big_blind")
        d6 == updatePlayerBet(deductChips(d5, playerIds[bigBlindIndex], BIG_BLIND),
                              playerIds[bigBlindIndex], BIG_BLIND)
        d7 == SetOtherRoles(d6, playerIds, {dealerIndex, smallBlindIndex, bigBlindIndex}, 1)
        d8 == addToPot(d7, SMALL_BLIND + BIG_BLIND)
        d9 == createDeck(d8, k)
        firstToActIndex == IF n = 2 THEN smallBlindIndex ELSE (bigBlindIndex % n) + 1
    IN IF n < 2 THEN [ok |-> FALSE, db |-> d, firstPlayerId |-> NULL]
       ELSE Dealt(d, DealHoleCards(d9, playerIds, 2 * n), playerIds[firstToActIndex])

\* ------------------------------------------------- services/betting-service.ts
\* validateTurnWithDb: the error it throws, "" when it returns
validateTurnWithDb(d, userId) ==
    IF getCurrentTurn(d) = NULL THEN "Game has not started"
    ELSE IF getCurrentTurn(d) # userId THEN "It's not your turn"
    ELSE ""

Rejected(d, action, err) ==
    [ok |-> FALSE, db |-> d, action |-> action, error |-> err, amount |-> 0,
     nextPlayerId |-> NULL]

\* the end of the transaction of an accepted action: a is the result of
\* advanceTurn, whose error rolls the transaction back to d0
Committed(d0, a, action, amount) ==
    IF ~a.ok THEN Rejected(d0, action, "No current turn set")
    ELSE [ok |-> TRUE, db |-> a.db, action |-> action, error |-> "", amount |-> amount,
          nextPlayerId |-> a.nextPlayerId]

\* the tail of every accepted action: advance the turn and commit
Accepted(d0, d, userId, action, amount) ==
    Committed(d0, advanceTurn(markHasActed(d, userId)), action, amount)

\* Every service is a transaction of two parts.  The first part validates the
\* turn and reads what the action needs; what it decides is a plan
\* [ok, error, action, chips, bet, amount]: chips to move from the stack to
\* the pot, bet the new bet_amount, amount the amount of the result.
Refuse(action, err) ==
    [ok |-> FALSE, error |-> err, action |-> action, chips |-> 0, bet |-> 0, amount |-> 0]

Plan(action, chips, bet, amount) ==
    [ok |-> TRUE, error |-> "", action |-> action, chips |-> chips, bet |-> bet,
     amount |-> amount]

\* fold: the turn check
foldPlan(d, userId) ==
    IF validateTurnWithDb(d, userId) # "" THEN Refuse("fold", validateTurnWithDb(d, userId))
    ELSE Plan("fold", 0, FOLDED, 0)

\* check without the comparison of the bets
checkPlanAlways(d, userId) ==
    IF validateTurnWithDb(d, userId) # "" THEN Refuse("check", validateTurnWithDb(d, userId))
    ELSE Plan("check", 0, getPlayerBet(d, userId), 0)

\* check: the turn check and the comparison of the bets
checkPlan(d, userId) ==
    IF validateTurnWithDb(d, userId) # "" THEN Refuse("check", validateTurnWithDb(d, userId))
    ELSE IF getCurrentBet(d) > getPlayerBet(d, userId)
      THEN Refuse("check", "Cannot check - must call")
    ELSE Plan("check", 0, getPlayerBet(d, userId), 0)

\* call without the comparison of the chips with callAmount
callPlanUnchecked(d, userId) ==
    LET currentBet == getCurrentBet(d)
        callAmount == currentBet - getPlayerBet(d, userId)
    IN IF validateTurnWithDb(d, userId) # ""
         THEN Refuse("call", validateTurnWithDb(d, userId))
       ELSE IF callAmount <= 0 THEN Refuse("call", "Nothing to call - use check instead")
       ELSE IF userId \notin PlayerSet(d) THEN Refuse("call", "Player not found in game")
       ELSE Plan("call", callAmount, currentBet, callAmount)

\* call: the turn check, callAmount and the chips of the player
callPlan(d, userId) ==
    LET currentBet == getCurrentBet(d)
        callAmount == currentBet - getPlayerBet(d, userId)
    IN IF validateTurnWithDb(d, userId) # ""
         THEN Refuse("call", validateTurnWithDb(d, userId))
       ELSE IF callAmount <= 0 THEN Refuse("call", "Nothing to call - use check instead")
       ELSE IF userId \notin PlayerSet(d) THEN Refuse("call", "Player not found in game")
       ELSE IF PlayerRow(d, userId).player_money < callAmount
         THEN Refuse("call", "Not enough chips to call")
       ELSE Plan("call", callAmount, currentBet, callAmount)

\* raise without the comparison with the current bet
raisePlanAny(d, userId, raiseToAmount) ==
    LET chipsNeeded == raiseToAmount - getPlayerBet(d, userId)
    IN IF validateTurnWithDb(d, userId) # ""
         THEN Refuse("raise", validateTurnWithDb(d, userId))
       ELSE IF userId \notin PlayerSet(d) THEN Refuse("raise", "Player not found in game")
       ELSE IF PlayerRow(d, userId).player_money < chipsNeeded
         THEN Refuse("raise", "Not enough chips to raise")
       ELSE Plan("raise", chipsNeeded, raiseToAmount, raiseToAmount)

\* raise: the turn check, the comparison with the current bet, chipsNeeded and
\* the chips of the player
raisePlan(d, userId, raiseToAmount) ==
    LET chipsNeeded == raiseToAmount - getPlayerBet(d, userId)
    IN IF validateTurnWithDb(d, userId) # ""
         THEN Refuse("raise", validateTurnWithDb(d, userId))
       ELSE IF raiseToAmount <= getCurrentBet(d)
         THEN Refuse("raise", "Raise must be more than current bet")
       ELSE IF userId \notin PlayerSet(d) THEN Refuse("raise", "Player not found in game")
       ELSE IF PlayerRow(d, userId).player_money < chipsNeeded
         THEN Refuse("raise", "Not enough chips to raise")
       ELSE Plan("raise", chipsNeeded, raiseToAmount, raiseToAmount)

\* allIn: the turn check and the row of the player
allInPlan(d, userId) ==
    IF validateTurnWithDb(d, userId) # "" THEN Refuse("all-in", validateTurnWithDb(d, userId))
    ELSE IF userId \notin PlayerSet(d) THEN Refuse("all-in", "Player not found in game")
    ELSE IF PlayerRow(d, userId).player_money <= 0
      THEN Refuse("all-in", "No chips remaining to bet")
    ELSE Plan("all-in", PlayerRow(d, userId).player_money,
              PlayerRow(d, userId).bet_amount + PlayerRow(d, userId).player_money,
              PlayerRow(d, userId).player_money)

\* The second part of the transaction writes what the plan decided: nothing
\* for a check, the fold mark for a fold, else deductChips, updatePlayerBet
\* and addToPot.
Writes(d, userId, plan) ==
    IF plan.action = "check" THEN d
    ELSE IF plan.action = "fold" THEN updatePlayerBet(d, userId, FOLDED)
    ELSE addToPot(updatePlayerBet(deductChips(d, userId, plan.chips), userId, plan.bet),
                  plan.chips)

\* a whole transaction on the database d: the plan is made and carried out
\* with nothing in between
Transaction(d, userId, plan) ==
    IF ~plan.ok THEN Rejected(d, plan.action, plan.error)
    ELSE Accepted(d, Writes(d, userId, plan), userId, plan.action, plan.amount)

\* fold(gameId, userId)
fold(d, userId) == Transaction(d, userId, foldPlan(d, userId))

\* check(gameId, userId)
check(d, userId) == Transaction(d, userId, checkPlan(d, userId))

\* call(gameId, userId)
call(d, userId) == Transaction(d, userId, callPlan(d, userId))

\* raise(gameId, userId, raiseToAmount)
raise(d, userId, raiseToAmount) == Transaction(d, userId, raisePlan(d, userId, raiseToAmount))

\* allIn(gameId, userId)
allIn(d, userId) == Transaction(d, userId, allInPlan(d, userId))

\* ------------------------------------------------- services/hand-evaluator.ts
\* cards: id = 13 * suit + rank index + 1, suits H D C S, ranks A 2 .. 10 J Q K
\* RANK_VALUE: A = 14, K = 13, Q = 12, J = 11
normalizeCard(c) ==
    [rank |-> IF (c - 1) % 13 = 0 THEN 14 ELSE ((c - 1) % 13) + 1,
     suit |-> (c - 1) \div 13]

RECURSIVE Descending(_)
Descending(S) == IF S = {} THEN <<>> ELSE <<SetMax(S)>> \o Descending(S \ {SetMax(S)})

\* getUniqueRanksDesc
getUniqueRanksDesc(cards) == Descending({normalizeCard(c).rank : c \in cards})

\* the loop of findStraightHigh from index i on (1-based)
RECURSIVE StraightLoop(_, _, _, _)
StraightLoop(ranks, i, run, best) ==
    IF i > Len(ranks) THEN best
    ELSE LET run2 == IF ranks[i - 1] - 1 = ranks[i] THEN run + 1 ELSE 1
             high == ranks[i - 4]
             best2 == IF run2 >= 5 /\ (best = NULL \/ high > best) THEN high ELSE best
         IN StraightLoop(ranks, i + 1, run2, best2)

\* the ace is high only
findStraightHighAceHigh(uniqueRanksDesc) ==
    IF Len(uniqueRanksDesc) < 5 THEN NULL
    ELSE StraightLoop(uniqueRanksDesc, 2, 1, NULL)

\* findStraightHigh: NULL when there is no straight
findStraightHigh(uniqueRanksDesc) ==
    IF Len(uniqueRanksDesc) < 5 THEN NULL
    ELSE LET ranks == IF 14 \in Range(uniqueRanksDesc)
                        THEN Append(uniqueRanksDesc, 1) ELSE uniqueRanksDesc
         IN StraightLoop(ranks, 2, 1, NULL)

\* straightRanks
straightRanks(high) == <<high, high - 1, high - 2, high - 3, high - 4>>

\* only the first entries are compared
compareRankListsFirst(a, b) ==
    LET left == IF a = <<>> THEN 0 ELSE Head(a)
        right == IF b = <<>> THEN 0 ELSE Head(b)
    IN IF left > right THEN 1 ELSE IF left < right THEN -1 ELSE 0

\* compareRankLists: missing entries count as 0
RECURSIVE compareRankLists(_, _)
compareRankLists(a, b) ==
    IF a = <<>> /\ b = <<>> THEN 0
    ELSE LET left == IF a = <<>> THEN 0 ELSE Head(a)
             right == IF b = <<>> THEN 0 ELSE Head(b)
         IN IF left > right THEN 1
            ELSE IF left < right THEN -1
            ELSE compareRankLists(IF a = <<>> THEN a ELSE Tail(a),
                                  IF b = <<>> THEN b ELSE Tail(b))

\* the list is not cut
TakeAll(s, n) == s

\* slice(0, n)
Take(s, n) == SubSeq(s, 1, IF Len(s) < n THEN Len(s) ELSE n)

\* evaluateHand(holeCards, communityCards) on the set of all the cards:
\* [category, ranks]; categories 0 (high card) .. 8 (straight flush)
evaluateHand(cards) ==
    LET count(r) == Cardinality({c \in cards : normalizeCard(c).rank = r})
        allRanks == {normalizeCard(c).rank : c \in cards}
        uniqueRanksDesc == getUniqueRanksDesc(cards)
        quads == Descending({r \in allRanks : count(r) = 4})
        trips == Descending({r \in allRanks : count(r) = 3})
        pairs == Descending({r \in allRanks : count(r) = 2})
        suited(s) == {c \in cards : normalizeCard(c).suit = s}
        flushSuits == {s \in 0 .. 3 : Cardinality(suited(s)) >= 5}
        \* ranks of a suit, descending, with repetitions impossible inside one suit
        topFive(s) == Take(getUniqueRanksDesc(suited(s)), 5)
        bestFlushSuit == CHOOSE s \in flushSuits :
                            \A t \in flushSuits : compareRankLists(topFive(s), topFive(t)) >= 0
        sfHighs == {findStraightHigh(getUniqueRanksDesc(suited(s))) : s \in flushSuits} \ {NULL}
        straightHigh == findStraightHigh(uniqueRanksDesc)
        without(seq, S) == SelectSeq(seq, LAMBDA r : r \notin S)
    IN IF sfHighs # {} THEN [category |-> 8, ranks |-> straightRanks(SetMax(sfHighs))]
       ELSE IF Len(quads) > 0
         THEN [category |-> 7,
               ranks |-> <<quads[1]>> \o
                         (IF without(uniqueRanksDesc, {quads[1]}) = <<>> THEN <<0>>
                          ELSE <<without(uniqueRanksDesc, {quads[1]})[1]>>)]
       ELSE IF Len(trips) > 0 /\ (Len(pairs) > 0 \/ Len(trips) > 1)
         THEN [category |-> 6,
               ranks |-> <<trips[1], IF Len(pairs) > 0 THEN pairs[1] ELSE trips[2]>>]
       ELSE IF flushSuits # {} THEN [category |-> 5, ranks |-> topFive(bestFlushSuit)]
       ELSE IF straightHigh # NULL THEN [category |-> 4, ranks |-> straightRanks(straightHigh)]
       ELSE IF Len(trips) > 0
         THEN [category |-> 3,
               ranks |-> <<trips[1]>> \o Take(without(uniqueRanksDesc, {trips[1]}), 2)]
       ELSE IF Len(pairs) >= 2
         THEN [category |-> 2,
               ranks |-> <<pairs[1], pairs[2]>> \o
                         (IF without(uniqueRanksDesc, {pairs[1], pairs[2]}) = <<>> THEN <<0>>
                          ELSE <<without(uniqueRanksDesc, {pairs[1], pairs[2]})[1]>>)]
       ELSE IF Len(pairs) = 1
         THEN [category |-> 1,
               ranks |-> <<pairs[1]>> \o Take(without(uniqueRanksDesc, {pairs[1]}), 3)]
       ELSE [category |-> 0, ranks |-> Take(uniqueRanksDesc, 5)]

\* compareHands
compareHands(hand1, hand2) ==
    IF hand1.category > hand2.category THEN 1
    ELSE IF hand1.category < hand2.category THEN -1
    ELSE compareRankLists(hand1.ranks, hand2.ranks)

\* the loop of determineWinners over playerHands[i ..]; winning is the list
\* of the player hands tied for best so far
RECURSIVE WinnersLoop(_, _, _)
WinnersLoop(playerHands, i, winning) ==
    IF i > Len(playerHands) THEN winning
    ELSE LET ph == playerHands[i]
             result == compareHands(ph.hand, winning[1].hand)
         IN IF winning = <<>> THEN WinnersLoop(playerHands, i + 1, <<ph>>)
            ELSE IF result > 0 THEN WinnersLoop(playerHands, i + 1, <<ph>>)
            ELSE IF result = 0 THEN WinnersLoop(playerHands, i + 1, Append(winning, ph))
            ELSE WinnersLoop(playerHands, i + 1, winning)

\* every player hand wins
determineWinnersAll(playerHands) ==
    [i \in DOMAIN playerHands |-> playerHands[i].userId]

\* determineWinners: the winner ids, in the order of playerHands
determineWinners(playerHands) ==
    LET winning == WinnersLoop(playerHands, 1, <<>>)
    IN [i \in DOMAIN winning |-> winning[i].userId]

\* ------------------------------------------------- services/showdown-service.ts
\* JavaScript %: the sign of the dividend
JsRem(a, b) == IF a >= 0 THEN a % b ELSE -((-a) % b)

\* the whole remainder goes to the first winner
calculatePayoutsFirstTakesAll(pot, winnerIds) ==
    IF Len(winnerIds) = 0 THEN <<>>
    ELSE [i \in DOMAIN winnerIds |->
             [userId |-> winnerIds[i],
              amount |-> (pot \div Len(winnerIds))
                         + (IF i = 1 THEN JsRem(pot, Len(winnerIds)) ELSE 0)]]

\* calculatePayouts(pot, winnerIds)
calculatePayouts(pot, winnerIds) ==
    IF Len(winnerIds) = 0 THEN <<>>
    ELSE LET baseShare == pot \div Len(winnerIds)
             remainder == JsRem(pot, Len(winnerIds))
         IN [i \in DOMAIN winnerIds |->
                [userId |-> winnerIds[i],
                 amount |-> baseShare + (IF i - 1 < remainder THEN 1 ELSE 0)]]

RECURSIVE PayOut(_, _, _)
PayOut(d, payouts, i) ==
    IF i > Len(payouts) THEN d
    ELSE PayOut(IF payouts[i].amount > 0
                  THEN addChips(d, payouts[i].userId, payouts[i].amount) ELSE d,
                payouts, i + 1)

\* the end of runShowdown: the payouts are credited, the pot is emptied and
\* the game is over
Settle(d, pot, winnerIds, payouts) ==
    [ok |-> TRUE,
     db |-> endGame(IF pot > 0 THEN addToPot(PayOut(d, payouts, 1), -pot)
                    ELSE PayOut(d, payouts, 1)),
     error |-> "", winners |-> winnerIds, payouts |-> payouts]

\* runShowdown from determineWinners on
Award(d, winnerIds) ==
    Settle(d, get(d).pot_money, winnerIds, calculatePayouts(get(d).pot_money, winnerIds))

\* the hands of the players that have not folded
PlayerHands(d, activePlayers, communityCards) ==
    [i \in DOMAIN activePlayers |->
        [userId |-> activePlayers[i].user_id,
         hand |-> evaluateHand(HoleCards(d, activePlayers[i].user_id)
                               \cup Range(communityCards))]]

\* runShowdown after the community cards were read
Showdown(d, communityCards, activePlayers) ==
    IF Len(communityCards) < 3
      THEN [ok |-> FALSE, db |-> d, winners |-> <<>>, payouts |-> <<>>,
            error |-> "Cannot run showdown without community cards on the table"]
    ELSE IF Len(activePlayers) = 0
      THEN [ok |-> FALSE, db |-> d, winners |-> <<>>, payouts |-> <<>>,
            error |-> "No active players remaining for showdown"]
    ELSE IF \E i \in DOMAIN activePlayers :
               Len(getPlayerCards(d, activePlayers[i].user_id)) < 2
      THEN [ok |-> FALSE, db |-> d, winners |-> <<>>, payouts |-> <<>>,
            error |-> "Player does not have 2 hole cards"]
    ELSE Award(d, determineWinners(PlayerHands(d, activePlayers, communityCards)))

\* runShowdown(gameId), one transaction: [ok, db, error, winners, payouts]
runShowdown(d) ==
    Showdown(d, getCommunityCards(d),
             SelectSeq(getPlayersWithStats(d), LAMBDA p : p.bet_amount >= 0))

\* ------------------------------------------------- services/round-service.ts
\* isBettingRoundComplete(gameId)
isBettingRoundComplete(d) ==
    LET players == getPlayersWithStats(d)
        active == {p \in Range(players) : p.bet_amount >= 0}
        maxBet == SetMax({p.bet_amount : p \in active})
    IN IF active = {} THEN TRUE
       ELSE IF ~(\A p \in active : p.has_acted) THEN FALSE
       ELSE \A p \in active : p.bet_amount = maxBet

\* dealCommunityCards without the comparison of game.state with expectedState
dealCommunityCardsAnyState(d, expectedState, nextState, count) ==
    LET cards == getCardsFromDeck(d, count)
        added == addCommunityCards(d, cards)
    IN IF Len(cards) # count
         THEN [ok |-> FALSE, db |-> d,
               error |-> "Deck exhausted while dealing community cards"]
       ELSE IF ~added.ok
         THEN [ok |-> FALSE, db |-> d, error |-> "duplicate key value"]
       ELSE [ok |-> TRUE,
             db |-> resetHasActed(resetBets(updateGameState(added.db, nextState))),
             error |-> ""]

\* dealCommunityCards(gameId, expectedState, nextState, count), one
\* transaction: [ok, db, error]
dealCommunityCards(d, expectedState, nextState, count) ==
    LET cards == getCardsFromDeck(d, count)
        added == addCommunityCards(d, cards)
    IN IF get(d).state # expectedState
         THEN [ok |-> FALSE, db |-> d, error |-> "Invalid state transition"]
       ELSE IF Len(cards) # count
         THEN [ok |-> FALSE, db |-> d,
               error |-> "Deck exhausted while dealing community cards"]
       ELSE IF ~added.ok
         THEN [ok |-> FALSE, db |-> d, error |-> "duplicate key value"]
       ELSE [ok |-> TRUE,
             db |-> resetHasActed(resetBets(updateGameState(added.db, nextState))),
             error |-> ""]

\* a flop of two cards
dealFlopShort(d) == dealCommunityCards(d, "pre-flop", "flop", 2)
dealFlop(d) == dealCommunityCards(d, "pre-flop", "flop", 3)
dealTurn(d) == dealCommunityCards(d, "flop", "turn", 1)
dealRiver(d) == dealCommunityCards(d, "turn", "river", 1)

\* ------------------------------------------------- routes (betting routes)
\* checkAndAdvanceRound(io, gameId), called after every accepted action:
\* [ok, db, error]
checkAndAdvanceRound(d) ==
    IF ~isBettingRoundComplete(d) THEN [ok |-> TRUE, db |-> d, error |-> ""]
    ELSE IF get(d).state = "pre-flop" THEN dealFlop(d)
    ELSE IF get(d).state = "flop" THEN dealTurn(d)
    ELSE IF get(d).state = "turn" THEN dealRiver(d)
    ELSE IF get(d).state = "river" THEN runShowdown(d)
    ELSE [ok |-> TRUE, db |-> d, error |-> ""]

\* the service a betting route calls
BettingService(d, kind, userId, amount) ==
    IF kind = "fold" THEN fold(d, userId)
    ELSE IF kind = "check" THEN check(d, userId)
    ELSE IF kind = "call" THEN call(d, userId)
    ELSE IF kind = "raise" THEN raise(d, userId, amount)
    ELSE allIn(d, userId)

\* the betting routes after the service returned r: checkAndAdvanceRound has
\* answered c
Advanced(r, c) ==
    IF ~c.ok THEN [status |-> 400, body |-> c.error, accepted |-> TRUE, db |-> c.db]
    ELSE [status |-> 200, body |-> r.action, accepted |-> TRUE, db |-> c.db]

\* the betting routes once the service has answered r
Served(d, r) ==
    IF ~r.ok THEN [status |-> 400, body |-> r.error, accepted |-> FALSE, db |-> d]
    ELSE Advanced(r, checkAndAdvanceRound(r.db))

\* POST /games/:id/{fold,check,call,raise,all-in}: requireGamePlayer, the
\* service, then checkAndAdvanceRound.  status is 403, 400 (something was
\* thrown) or 200; body is the error message or the action of the result;
\* accepted tells whether the transaction of the service committed.
BettingRoute(d, kind, userId, amount) ==
    IF userId \notin PlayerSet(d)
      THEN [status |-> 403, body |-> "You must be in the game to view it",
            accepted |-> FALSE, db |-> d]
    ELSE IF kind = "raise" /\ amount <= 0
      THEN [status |-> 400, body |-> "Invalid raise amount",
            accepted |-> FALSE, db |-> d]
    ELSE Served(d, BettingService(d, kind, userId, amount))

\* ------------------------------------------------------------------ Init
\* The state right after POST /games: the game exists in the lobby and its
\* creator has joined it.
Init ==
    /\ \E mp \in 2 .. MaxUsers :
          game = [state |-> "lobby", pot_money |-> 0, current_turn_user_id |-> NULL,
                  created_by |-> 1, max_players |-> mp]
    /\ game_players = <<JoinRow(1)>>
    /\ player_cards = <<>>
    /\ community_cards = {}
    /\ response = [status |-> 302, body |-> "/games/:id", accepted |-> TRUE]
    /\ unfolds = 0
    /\ inflight = <<>>
    /\ NoCleanup

Commit(d) ==
    /\ game' = d.game
    /\ game_players' = d.game_players
    /\ player_cards' = d.player_cards
    /\ community_cards' = d.community_cards

\* the database holds d
Commit0(d) ==
    /\ game = d.game
    /\ game_players = d.game_players
    /\ player_cards = d.player_cards
    /\ community_cards = d.community_cards

\* a route ends: its writes are in the database, its answer is sent
Respond(res) ==
    /\ Commit(res.db)
    /\ response' = [status |-> res.status, body |-> res.body, accepted |-> res.accepted]

\* ------------------------------------------------------------- lobby
\* POST /games/:game_id/join; every outcome is a redirect, body is its target
JoinRoute(d, u) ==
    IF u \in PlayerSet(d)
      THEN [status |-> 302, body |-> "/games/:id", accepted |-> FALSE, db |-> d]
    ELSE IF get(d).state # "lobby"
      THEN [status |-> 302, body |-> "/lobby?error=game_started", accepted |-> FALSE, db |-> d]
    ELSE IF Len(getPlayerIds(d)) >= get(d).max_players
      THEN [status |-> 302, body |-> "/lobby?error=game_full", accepted |-> FALSE, db |-> d]
    ELSE [status |-> 302, body |-> "/games/:id", accepted |-> TRUE, db |-> join(d, u)]

Join(u) ==
    /\ Respond(JoinRoute(Db, u))
    /\ UNCHANGED <<unfolds, cleanup, inflight>>

\* socket "disconnect" of a socket opened with the game's id: in the lobby
\* the user's game_players row is deleted
DisconnectHandler(d, u) == IF get(d).state = "lobby" THEN leave(d, u) ELSE d

\* the sockets that close are those of the users who joined after the
\* creator; a closing socket gets no answer
Disconnect(u) ==
    /\ u # game.created_by
    /\ Commit(DisconnectHandler(Db, u))
    /\ UNCHANGED <<response, unfolds, cleanup, inflight>>

\* POST /games/:id/start after startGame returned or threw
Started(g) == [status |-> 302, body |-> "/games/:id", accepted |-> g.ok, db |-> g.db]

\* POST /games/:id/start without the check of the state
StartRouteAnyPhase(d, u, k) ==
    IF get(d).created_by # u
      THEN [status |-> 302, body |-> "/games/:id", accepted |-> FALSE, db |-> d]
    ELSE Started(startGame(d, k))

\* POST /games/:id/start without the check of the owner
StartRouteAnyUser(d, u, k) ==
    IF get(d).state # "lobby"
      THEN [status |-> 302, body |-> "/games/:id", accepted |-> FALSE, db |-> d]
    ELSE Started(startGame(d, k))

\* POST /games/:id/start; every outcome is a redirect to the game's page
StartRoute(d, u, k) ==
    IF get(d).created_by # u
      THEN [status |-> 302, body |-> "/games/:id", accepted |-> FALSE, db |-> d]
    ELSE IF get(d).state # "lobby"
      THEN [status |-> 302, body |-> "/games/:id", accepted |-> FALSE, db |-> d]
    ELSE Started(startGame(d, k))

Start(u) ==
    \E k \in 1 .. MaxShuffle :
        /\ Respond(StartRoute(Db, u, k))
        /\ UNCHANGED <<unfolds, cleanup, inflight>>

\* POST /games/:id/end
EndRoute(d, u) ==
    IF get(d).created_by # u
      THEN [status |-> 302, body |-> "/games/:id", accepted |-> FALSE, db |-> d]
    ELSE [status |-> 302, body |-> "/lobby", accepted |-> TRUE, db |-> endGame(d)]

End(u) ==
    /\ Respond(EndRoute(Db, u))
    /\ UNCHANGED <<unfolds, cleanup, inflight>>

\* ------------------------------------------------------------- betting
\* a player whose bet_amount is FOLDED
Folded(d, u) == u \in PlayerSet(d) /\ PlayerRow(d, u).bet_amount = FOLDED

\* a betting request of user u is sent: a folded player whose turn it still
\* is sends at most MaxUnfold further requests
Request(u) ==
    LET again == Folded(Db, u) /\ getCurrentTurn(Db) = u
    IN /\ again => unfolds < MaxUnfold
       /\ unfolds' = IF again THEN unfolds + 1 ELSE unfolds
       /\ UNCHANGED cleanup
       /\ UNCHANGED inflight

\* POST /games/:id/fold
Fold(u) ==
    /\ Request(u)
    /\ Respond(BettingRoute(Db, "fold", u, 0))

\* POST /games/:id/check
Check(u) ==
    /\ Request(u)
    /\ Respond(BettingRoute(Db, "check", u, 0))

\* POST /games/:id/call
Call(u) ==
    /\ Request(u)
    /\ Respond(BettingRoute(Db, "call", u, 0))

\* POST /games/:id/raise with body {amount}
Raise(u, amount) ==
    /\ Request(u)
    /\ Respond(BettingRoute(Db, "raise", u, amount))

\* POST /games/:id/all-in
AllIn(u) ==
    /\ Request(u)
    /\ Respond(BettingRoute(Db, "all-in", u, 0))

\* ------------------------------------------------------------- sockets
\* the state with the hole cards of every player in my_cards
GameStateAllCards(d, u) ==
    [game |-> get(d),
     players |-> getPlayersWithStats(d),
     community_cards |-> getCommunityCards(d),
     is_my_turn |-> get(d).current_turn_user_id = u,
     my_cards |-> Ascending({c \in DOMAIN d.player_cards :
                                d.player_cards[c].owner_player_id # NULL})]

\* socket.on("game:requestState"): the game:state event emitted to the
\* socket of user u
GameState(d, u) ==
    [game |-> get(d),
     players |-> getPlayersWithStats(d),
     community_cards |-> getCommunityCards(d),
     is_my_turn |-> get(d).current_turn_user_id = u,
     my_cards |-> getPlayerCards(d, u)]

\* the client of user u asks for the state of the game: nothing is written
RequestState(u) ==
    /\ response' = [status |-> 200, body |-> "game:state", accepted |-> FALSE]
    /\ UNCHANGED <<game, game_players, player_cards, community_cards, unfolds, cleanup, inflight>>

\* TURN_CHANGED: is_my_turn, as the server tells the client of user u
isMyTurn(d, u) == u \in PlayerSet(d) /\ getCurrentTurn(d) = u

\* the timer's callback checks when a check is legal
onTimeoutCheck(d, u) == IF check(d, u).ok THEN "check" ELSE "fold"

\* the callback the client gives startTurnTimer: the request it sends when
\* the 30 seconds of the turn are over
onTimeout(d, u) == "fold"

\* the answer to the request of the expired timer
TimeoutRoute(d, u) == BettingRoute(d, onTimeout(d, u), u, 0)

\* the turn timer of the client of user u expires
Timeout(u) ==
    /\ isMyTurn(Db, u)
    /\ Request(u)
    /\ Respond(TimeoutRoute(Db, u))

Next ==
    \E u \in Users :
        \/ RequestState(u)
        \/ Timeout(u)
        \/ Join(u)
        \/ Disconnect(u)
        \/ Start(u)
        \/ End(u)
        \/ Fold(u)
        \/ Check(u)
        \/ Call(u)
        \/ \E amount \in RaiseAmounts : Raise(u, amount)
        \/ AllIn(u)

Spec == Init /\ [][Next]_vars

\* ------------------------------------------------- a silent player
\* The player whose turn it is sends nothing (no request, no socket): the
\* server goes on serving the others.  The server has no timer of its own;
\* the only turn timer runs in the browser of the player to act.

\* user u is not the player the hand waits for
Waiting(u) == ~(game.state \in {"pre-flop", "flop", "turn", "river"}
                /\ game.current_turn_user_id = u)

NextSilent ==
    \E u \in Users :
        \/ Waiting(u) /\ RequestState(u)
        \/ Waiting(u) /\ Join(u)
        \/ Waiting(u) /\ Disconnect(u)
        \/ Waiting(u) /\ Start(u)
        \/ Waiting(u) /\ End(u)
        \/ Waiting(u) /\ Fold(u)
        \/ Waiting(u) /\ Check(u)
        \/ Waiting(u) /\ Call(u)
        \/ Waiting(u) /\ \E amount \in RaiseAmounts : Raise(u, amount)
        \/ Waiting(u) /\ AllIn(u)

\* every request that reaches the server is served
SpecSilent == Init /\ [][NextSilent]_vars /\ WF_vars(NextSilent)

\* ------------------------------------------------- services/game-cleanup.ts
\* every call sets a timer
NeverScheduled(set, gameId) == FALSE

\* scheduled.has(gameId)
IsScheduled(set, gameId) == gameId \in set

\* scheduleGameCleanup(gameId): nothing when the game is scheduled already,
\* else the game is added to scheduled and a timer is set
scheduleGameCleanup(gameId) ==
    /\ IsScheduled(scheduled, gameId) => calls[gameId] < MaxCalls
    /\ Len(timers) < MaxTimers
    /\ IF IsScheduled(scheduled, gameId)
         THEN /\ calls' = [calls EXCEPT ![gameId] = @ + 1]
              /\ UNCHANGED <<scheduled, timers, attempts>>
         ELSE /\ scheduled' = scheduled \cup {gameId}
              /\ timers' = Append(timers, [gameId |-> gameId, stage |-> "pending"])
              /\ calls' = [calls EXCEPT ![gameId] = 1]
              /\ attempts' = [attempts EXCEPT ![gameId] = <<>>]
    /\ UNCHANGED <<game, game_players, player_cards, community_cards, response, unfolds,
                   inflight>>

\* CLEANUP_DELAY_MS has passed for the oldest timer: its callback starts and
\* awaits Games.deleteGameCompletely(gameId)
TimerFires(i) ==
    /\ i \in DOMAIN timers
    /\ timers[i].stage = "pending"
    /\ \A j \in 1 .. i - 1 : timers[j].stage # "pending"
    /\ timers' = [timers EXCEPT ![i].stage = "deleting"]
    /\ attempts' = [attempts EXCEPT ![timers[i].gameId] = Append(@, "running")]
    /\ UNCHANGED <<game, game_players, player_cards, community_cards, response, unfolds,
                   inflight, scheduled, calls>>

\* the deletion of callback i resolves (ok) or rejects: try logs, catch logs,
\* finally scheduled.delete(gameId).  The statements of deleteGameCompletely
\* are not among the sources; the rows of the game are left as they are.
CleanupEnds(i, ok) ==
    /\ i \in DOMAIN timers
    /\ timers[i].stage = "deleting"
    /\ timers' = Without(timers, i)
    /\ scheduled' = scheduled \ {timers[i].gameId}
    /\ calls' = [calls EXCEPT ![timers[i].gameId] = 0]
    /\ attempts' = [attempts EXCEPT ![timers[i].gameId] =
                       [k \in DOMAIN @ |-> IF @[k] # "running" THEN @[k]
                                           ELSE IF ok THEN "deleted" ELSE "failed"]]
    /\ UNCHANGED <<game, game_players, player_cards, community_cards, response, unfolds,
                   inflight>>

NextCleanup ==
    \/ \E gameId \in GameIds : scheduleGameCleanup(gameId)
    \/ \E i \in 1 .. MaxTimers : TimerFires(i)
    \/ \E i \in 1 .. MaxTimers, ok \in BOOLEAN : CleanupEnds(i, ok)

SpecCleanup == Init /\ [][NextCleanup]_vars

\* ------------------------------------------------- overlapping transactions
\* Two requests are two transactions on two connections of the pool (READ
\* COMMITTED).  A transaction reads when it begins and writes when it
\* finishes: what another transaction committed in between is not read again,
\* except by advanceTurn, which reads and writes at the end.

\* the first part of the service a betting route calls
PlanOf(d, kind, userId, amount) ==
    IF kind = "raise" /\ amount <= 0 THEN Refuse("raise", "Invalid raise amount")
    ELSE IF kind = "fold" THEN foldPlan(d, userId)
    ELSE IF kind = "check" THEN checkPlan(d, userId)
    ELSE IF kind = "call" THEN callPlan(d, userId)
    ELSE IF kind = "raise" THEN raisePlan(d, userId, amount)
    ELSE allInPlan(d, userId)

Kinds == {"fold", "check", "call", "raise", "all-in"}

\* the accepted actions so far: the turns that have been played
Epoch == Cardinality({i \in DOMAIN inflight : inflight[i].status = "accepted"})

\* a refused request is answered at once; any other enters inflight with its
\* plan, MaxRequests of them at most
Begun(u, plan) ==
    IF plan.ok
      THEN /\ Len(inflight) < MaxRequests
           /\ inflight' = Append(inflight,
                  [user |-> u, plan |-> plan, epoch |-> Epoch, turn |-> NULL,
                   status |-> "pending"])
           /\ UNCHANGED <<game, game_players, player_cards, community_cards, response>>
      ELSE /\ Respond([status |-> 400, body |-> plan.error, accepted |-> FALSE, db |-> Db])
           /\ UNCHANGED inflight

\* a player's request reaches its route: requireGamePlayer, then the
\* transaction begins, validates the turn and reads
Begin(u, kind, amount) ==
    /\ u \in PlayerSet(Db)
    /\ Begun(u, PlanOf(Db, kind, u, amount))
    /\ UNCHANGED <<unfolds, cleanup>>

\* the request i is answered res; turn is the current turn its writes met
Finished(i, res, turn) ==
    /\ Respond(res)
    /\ inflight' = [inflight EXCEPT ![i].turn = turn,
                                    ![i].status = IF res.accepted THEN "accepted"
                                                  ELSE "rejected"]

\* the transaction of request i writes, advances the turn and commits; the
\* route then calls checkAndAdvanceRound and answers
Finish(i) ==
    /\ i \in DOMAIN inflight
    /\ inflight[i].status = "pending"
    /\ Finished(i, Served(Db, Accepted(Db, Writes(Db, inflight[i].user, inflight[i].plan),
                                       inflight[i].user, inflight[i].plan.action,
                                       inflight[i].plan.amount)),
                getCurrentTurn(Db))
    /\ UNCHANGED <<unfolds, cleanup>>

NextConc ==
    \/ \E u \in Users : Join(u)
    \/ \E u \in Users : Start(u)
    \/ \E u \in Users, kind \in Kinds, amount \in RaiseAmounts : Begin(u, kind, amount)
    \/ \E i \in 1 .. MaxRequests : Finish(i)

SpecConc == Init /\ [][NextConc]_vars

\* ------------------------------------------------- the river
\* No run of Spec gets beyond the flop (dealTurn draws a flop card again), so
\* runShowdown is exercised on the tables of a hand whose streets were dealt:
\* the hand startGame began, with five community cards on the board and the
\* betting round of the river about to begin.
Seats == 1 .. MaxSeats

\* what every player still in the hand has committed on the earlier streets:
\* the call of a raise to 45
RiverStakes == {45}

\* the boards: a royal flush in spades, a pair of nines, and ace high
Boards == {{40, 49, 50, 51, 52}, {22, 26, 33, 38, 48}, {14, 22, 26, 38, 50}}

\* the lobby of a game that n users have joined
Lobby(n) ==
    [game |-> [state |-> "lobby", pot_money |-> 0, current_turn_user_id |-> NULL,
               created_by |-> 1, max_players |-> n],
     game_players |-> [u \in 1 .. n |-> JoinRow(u)],
     player_cards |-> <<>>,
     community_cards |-> {}]

\* the row of a player on the river: a player who folded keeps the blind
\* (when the fold came before the flop) or the stake (late) in the pot; the
\* others have committed the stake and their bet was reset by the deal
RiverRow(p, folded, late, stake) ==
    IF p.user_id \in folded
      THEN [p EXCEPT !.bet_amount = FOLDED,
                     !.player_money = IF late THEN BUY_IN - stake ELSE @]
      ELSE [p EXCEPT !.bet_amount = 0, !.player_money = BUY_IN - stake,
                     !.has_acted = FALSE]

RiverRows(d, folded, late, stake) ==
    [i \in DOMAIN d.game_players |-> RiverRow(d.game_players[i], folded, late, stake)]

\* the pot holds what the stacks miss
PotOf(rows) == SumOver([i \in DOMAIN rows |-> BUY_IN - rows[i].player_money], DOMAIN rows)

\* the table after dealRiver, from the database d that startGame left
RiverTable(d, rows, board, turn) ==
    [game |-> [d.game EXCEPT !.state = "river", !.pot_money = PotOf(rows),
                             !.current_turn_user_id = turn],
     game_players |-> rows,
     player_cards |-> d.player_cards,
     community_cards |-> board]

InitRiver ==
    \E n \in 2 .. MaxSeats, k \in 1 .. MaxShuffle, stake \in RiverStakes,
       board \in Boards, late \in BOOLEAN :
        \E folded \in SUBSET (1 .. n) :
            \E turn \in (1 .. n) \ folded :
                /\ board \subseteq Undealt(startGame(Lobby(n), k).db)
                /\ late => folded # {}
                /\ Commit0(RiverTable(startGame(Lobby(n), k).db,
                                      RiverRows(startGame(Lobby(n), k).db, folded, late, stake),
                                      board, turn))
                /\ response = [status |-> 200, body |-> "check", accepted |-> TRUE]
                /\ unfolds = 0
                /\ inflight = <<>>
                /\ NoCleanup

\* a hand on the river
OnRiver == game.state = "river"

\* the requests of the betting round of the river, up to the showdown, and
\* the start requests sent once the hand is over
NextRiver ==
    \E u \in Seats :
        \/ game.state = "game-over" /\ Start(u)
        \/ OnRiver /\ Fold(u)
        \/ OnRiver /\ Check(u)
        \/ OnRiver /\ Call(u)
        \/ OnRiver /\ \E amount \in RaiseAmounts : Raise(u, amount)
        \/ OnRiver /\ AllIn(u)

SpecRiver == InitRiver /\ [][NextRiver]_vars

\* ------------------------------------------------- the showdown of dealt hands
\* evaluateHand and compareHands are applied by runShowdown to the cards of
\* the players; RANDOM() may give the deck any order, so a hand on the river
\* may hold any hole cards and any board.  These tables draw them from hands
\* that meet every category the comparison has to tell apart.
MaxShowdown == 3

\* the hole cards: A5 of hearts, A5 of diamonds, ace of clubs and five of
\* spades, 56 of hearts, 56 of clubs, two sixes, two kings, two aces
HoleHands == {{1, 5}, {14, 18}, {27, 44}, {5, 6}, {31, 32}, {6, 19}, {13, 52}, {1, 14}}

\* the boards: 234 of hearts with a nine and a king, 2345 of hearts with a
\* nine, and the pair of nines
ShowBoards == {{2, 3, 4, 22, 39}, {2, 3, 4, 5, 22}, {22, 26, 33, 38, 48}}

\* the deck after the deal of the hole cards hole[u] to the players 1 .. n:
\* the other cards keep the positions behind the 2n cards dealt
HandsDeck(n, hole) ==
    [c \in Cards |->
        IF \E u \in 1 .. n : c \in hole[u]
          THEN [owner_player_id |-> (CHOOSE u \in 1 .. n : c \in hole[u]), position |-> NULL]
          ELSE [owner_player_id |-> NULL,
                position |-> 2 * n + Cardinality({x \in Cards : x <= c
                                                     /\ \A u \in 1 .. n : x \notin hole[u]})]]

\* the database startGame leaves when the deck order gives the players hole
HandsDealt(n, hole) ==
    [startGame(Lobby(n), 1).db EXCEPT !.player_cards = HandsDeck(n, hole)]

InitHands ==
    \E n \in 2 .. MaxShowdown, board \in ShowBoards, stake \in RiverStakes :
        \E hole \in [1 .. n -> HoleHands], turn \in 1 .. n :
            /\ \A u, v \in 1 .. n : u # v => hole[u] \cap hole[v] = {}
            /\ \A u \in 1 .. n : hole[u] \cap board = {}
            /\ Commit0(RiverTable(HandsDealt(n, hole),
                                  RiverRows(HandsDealt(n, hole), {}, FALSE, stake),
                                  board, turn))
            /\ response = [status |-> 200, body |-> "check", accepted |-> TRUE]
            /\ unfolds = 0
            /\ inflight = <<>>
            /\ NoCleanup

\* the checks of the betting round of the river, up to the showdown
NextHands == \E u \in 1 .. MaxShowdown : OnRiver /\ Check(u)

SpecHands == InitHands /\ [][NextHands]_vars

\* ------------------------------------------------- overlapping routes
\* A betting route awaits its service (one transaction) and then
\* checkAndAdvanceRound, which awaits isBettingRoundComplete and Games.get
\* and then the deal (one transaction) or runShowdown.  runShowdown passes
\* db.tx a callback that does not use the transaction: its statements run on
\* the pool, each committed by itself.  Between two awaits of one request the
\* server serves the others.  A request in flight is
\* [user, action, stage, completed, state, pot, winners, payouts].

\* the request of user u after its service committed the database d
ServedRequest(d, u, action) ==
    [user |-> u, action |-> action, stage |-> "served",
     completed |-> isBettingRoundComplete(d), state |-> get(d).state,
     pot |-> 0, winners |-> <<>>, payouts |-> <<>>]

\* the service of a betting route has answered r
RoundServed(u, r) ==
    IF r.ok
      THEN /\ Len(inflight) < MaxRequests
           /\ Commit(r.db)
           /\ inflight' = Append(inflight, ServedRequest(r.db, u, r.action))
           /\ UNCHANGED response
      ELSE /\ Respond([status |-> 400, body |-> r.error, accepted |-> FALSE, db |-> Db])
           /\ UNCHANGED inflight

\* POST /games/:id/{fold,check,call,raise,all-in} up to the return of the
\* service
RoundAct(u, kind, amount) ==
    /\ u \in PlayerSet(Db)
    /\ ~(kind = "raise" /\ amount <= 0)
    /\ (Folded(Db, u) /\ getCurrentTurn(Db) = u) => unfolds < MaxUnfold
    /\ unfolds' = IF Folded(Db, u) /\ getCurrentTurn(Db) = u THEN unfolds + 1 ELSE unfolds
    /\ UNCHANGED cleanup
    /\ RoundServed(u, BettingService(Db, kind, u, amount))

\* the route of request i answers res
RoundAnswered(i, res) ==
    /\ Respond(res)
    /\ inflight' = Without(inflight, i)

\* checkAndAdvanceRound of request i reads: the round is not complete (or
\* the state has no case in the switch) and the route answers, or the round
\* is complete and the state is kept for the switch
RoundObserve(i) ==
    /\ i \in DOMAIN inflight
    /\ inflight[i].stage = "served"
    /\ IF isBettingRoundComplete(Db) /\ get(Db).state \in {"pre-flop", "flop", "turn", "river"}
         THEN /\ inflight' = [inflight EXCEPT ![i].stage = "complete",
                                              ![i].state = get(Db).state]
              /\ UNCHANGED <<game, game_players, player_cards, community_cards, response>>
         ELSE RoundAnswered(i, [status |-> 200, body |-> inflight[i].action,
                                accepted |-> TRUE, db |-> Db])
    /\ UNCHANGED <<unfolds, cleanup>>

\* the deal of the state the switch saw
DealOf(d, state) ==
    IF state = "pre-flop" THEN dealFlop(d)
    ELSE IF state = "flop" THEN dealTurn(d)
    ELSE dealRiver(d)

\* runShowdown of request i has read the game, the cards and the players and
\* has the payouts r
ShowdownRead(i, r) ==
    IF r.ok
      THEN /\ inflight' = [inflight EXCEPT ![i].stage = "paying",
                                           ![i].pot = get(Db).pot_money,
                                           ![i].winners = r.winners,
                                           ![i].payouts = r.payouts]
           /\ UNCHANGED <<game, game_players, player_cards, community_cards, response>>
      ELSE RoundAnswered(i, [status |-> 400, body |-> r.error, accepted |-> TRUE, db |-> Db])

\* the switch of checkAndAdvanceRound of request i: the deal, or the reads
\* of runShowdown
RoundAdvance(i) ==
    /\ i \in DOMAIN inflight
    /\ inflight[i].stage = "complete"
    /\ IF inflight[i].state = "river"
         THEN ShowdownRead(i, runShowdown(Db))
         ELSE RoundAnswered(i, Advanced([action |-> inflight[i].action],
                                        DealOf(Db, inflight[i].state)))
    /\ UNCHANGED <<unfolds, cleanup>>

\* the writes of runShowdown of request i: addChips for every payout,
\* addToPot(-pot) and endGame, on the database as it is now
RoundPay(i) ==
    /\ i \in DOMAIN inflight
    /\ inflight[i].stage = "paying"
    /\ RoundAnswered(i, [status |-> 200, body |-> inflight[i].action, accepted |-> TRUE,
                         db |-> Settle(Db, inflight[i].pot, inflight[i].winners,
                                       inflight[i].payouts).db])
    /\ UNCHANGED <<unfolds, cleanup>>

\* the requests the server has in flight at a time
MaxRoutes == 2

\* the board of these hands: the pair of nines
RoundBoards == {{22, 26, 33, 38, 48}}

\* the hands on the river in which nobody has folded
InitRound ==
    \E n \in 2 .. MaxShowdown, k \in 1 .. MaxShuffle, stake \in RiverStakes,
       board \in RoundBoards, turn \in 1 .. MaxShowdown :
        /\ turn <= n
        /\ board \subseteq Undealt(startGame(Lobby(n), k).db)
        /\ Commit0(RiverTable(startGame(Lobby(n), k).db,
                              RiverRows(startGame(Lobby(n), k).db, {}, FALSE, stake),
                              board, turn))
        /\ response = [status |-> 200, body |-> "check", accepted |-> TRUE]
        /\ unfolds = 0
        /\ inflight = <<>>
        /\ NoCleanup

NextRound ==
    \/ \E u \in 1 .. MaxShowdown, kind \in Kinds, amount \in RaiseAmounts :
          OnRiver /\ Len(inflight) < MaxRoutes /\ RoundAct(u, kind, amount)
    \/ \E i \in 1 .. MaxRoutes : RoundObserve(i)
    \/ \E i \in 1 .. MaxRoutes : RoundAdvance(i)
    \/ \E i \in 1 .. MaxRoutes : RoundPay(i)

SpecRound == InitRound /\ [][NextRound]_vars

\* ------------------------------------------------- overlapping joins
\* POST /:game_id/join is no transaction: the route reads the game and its
\* players, decides, and inserts with a later statement.  Between the two
\* the requests of other connections are served.  inflight holds the join
\* requests that have decided to insert.

\* the join request of user u reads and decides; a refusal is answered at once
JoinBegin(u) ==
    /\ JoinRoute(Db, u).accepted => Len(inflight) < MaxRequests
    /\ inflight' = IF JoinRoute(Db, u).accepted
                     THEN Append(inflight, [user |-> u]) ELSE inflight
    /\ response' = IF JoinRoute(Db, u).accepted THEN response
                   ELSE [status |-> 302, body |-> JoinRoute(Db, u).body, accepted |-> FALSE]
    /\ UNCHANGED <<game, game_players, player_cards, community_cards, unfolds, cleanup>>

\* JOIN_GAME of user u: unique_game_user refuses a second row of the user
\* (the catch of the route redirects to join_failed)
Inserted(d, u) ==
    IF u \in PlayerSet(d)
      THEN [status |-> 302, body |-> "/lobby?error=join_failed", accepted |-> FALSE, db |-> d]
      ELSE [status |-> 302, body |-> "/games/:id", accepted |-> TRUE, db |-> join(d, u)]


\* the i-th join request in flight inserts and answers
JoinFinish(i) ==
    /\ i \in DOMAIN inflight
    /\ Respond(Inserted(Db, inflight[i].user))
    /\ inflight' = Without(inflight, i)
    /\ UNCHANGED <<unfolds, cleanup>>

NextJoin ==
    \/ \E u \in Users : JoinBegin(u)
    \/ \E i \in 1 .. MaxRequests : JoinFinish(i)
    \/ \E u \in Users : Disconnect(u)
    \/ \E u \in Users : Start(u)
    \/ \E u \in Users : End(u)

SpecJoin == Init /\ [][NextJoin]_vars

\* ------------------------------------------------------------------ claims
\* the game has been started: START_GAME alone sets the current turn
HandStarted == game.current_turn_user_id # NULL

TotalStacks ==
    SumOver([i \in DOMAIN game_players |-> game_players[i].player_money], DOMAIN game_players)

Table ==
    <<[i \in DOMAIN game_players |->
          <<game_players[i].user_id, game_players[i].player_money,
            game_players[i].bet_amount>>],
      game.pot_money, game.current_turn_user_id, game.state, community_cards>>

\* a step that serves one betting request
BettingStep ==
    \E u \in Users :
        \/ Fold(u)
        \/ Check(u)
        \/ Call(u)
        \/ \E amount \in RaiseAmounts : Raise(u, amount)
        \/ AllIn(u)

\* C2: every accepted betting action is submitted by the user who is the
\* current-turn player at the moment the action is applied: the current turn
\* that the writes of an accepted request met is the user who sent it.
C2_TurnLegality ==
    \A i \in DOMAIN inflight :
        inflight[i].status = "accepted" => inflight[i].turn = inflight[i].user

\* C3: a rejected action does not mutate state: whenever a betting request is
\* answered with an error, the stacks, round bets, pot, current turn, phase
\* and community cards are what they were before the request.
C3_RejectedLeavesState ==
    [][(BettingStep /\ response'.status # 200) => Table' = Table]_vars

\* C4: commands for one table are applied one at a time: of two requests that
\* were in flight for the same turn (both began after the same number of
\* accepted actions) at most one is accepted.
C4_OneAcceptedPerTurn ==
    \A i, j \in DOMAIN inflight :
        (/\ i < j
         /\ inflight[i].epoch = inflight[j].epoch
         /\ inflight[i].status = "accepted")
        => inflight[j].status # "accepted"

\* one step along lobby -> pre-flop -> flop -> turn -> river -> showdown/game-over
SingleStep(a, b) ==
    \/ a = "lobby" /\ b = "pre-flop"
    \/ a = "pre-flop" /\ b = "flop"
    \/ a = "flop" /\ b = "turn"
    \/ a = "turn" /\ b = "river"
    \/ a = "river" /\ b \in {"showdown", "game-over"}

\* a street deal succeeds only from its immediate predecessor; a rejected
\* deal leaves the database as it was
DealsGuarded ==
    /\ dealFlop(Db).ok => game.state = "pre-flop"
    /\ dealTurn(Db).ok => game.state = "flop"
    /\ dealRiver(Db).ok => game.state = "turn"
    /\ ~dealFlop(Db).ok => dealFlop(Db).db = Db
    /\ ~dealTurn(Db).ok => dealTurn(Db).db = Db
    /\ ~dealRiver(Db).ok => dealRiver(Db).db = Db

\* C5 as stated: the phase changes only by single steps along lobby ->
\* pre-flop -> flop -> turn -> river -> showdown/game-over, and a street deal
\* from any other phase than its predecessor is rejected.
C5_Original ==
    /\ [][game.state' # game.state => SingleStep(game.state, game.state')]_vars
    /\ []DealsGuarded

\* C5: the phase changes only by single steps along lobby -> pre-flop -> flop
\* -> turn -> river -> showdown/game-over or by the end request of the owner
\* (answered with the redirect to /lobby), which moves any phase to game-over;
\* game-over is never left, and a street deal from any other phase than its
\* predecessor is rejected.
C5_PhaseSteps ==
    /\ [][game.state' # game.state =>
            \/ SingleStep(game.state, game.state')
            \/ /\ game.state' = "game-over"
               /\ response'.body = "/lobby"]_vars
    /\ []DealsGuarded

\* C5 witness: the owner has ended the game on the flop
C5_Witness ==
    /\ game.state = "game-over"
    /\ response.body = "/lobby"
    /\ Cardinality(community_cards) = 3

CountOK ==
    /\ game.state = "pre-flop" => Cardinality(community_cards) = 0
    /\ game.state = "flop" => Cardinality(community_cards) = 3
    /\ game.state = "turn" => Cardinality(community_cards) = 4
    /\ game.state = "river" => Cardinality(community_cards) = 5

Places(c) ==
    (IF player_cards[c].owner_player_id = NULL THEN 1 ELSE 0)
    + Cardinality({u \in Users : player_cards[c].owner_player_id = u})
    + (IF c \in community_cards THEN 1 ELSE 0)

HoldingsKept ==
    \/ player_cards' = player_cards
    \/ \A c \in Cards :
          player_cards'[c].owner_player_id = player_cards[c].owner_player_id

HolesOK ==
    \A i \in DOMAIN game_players :
        Cardinality(HoleCards(Db, game_players[i].user_id)) = 2

\* C8: after the game is started every player of the hand holds exactly 2
\* hole cards, and no later step changes what a player holds.
C8_HoleCards ==
    /\ [](HandStarted => HolesOK)
    /\ [][HandStarted => HoldingsKept]_vars

\* C8 witness: on the flop, after a fold, every player holds 2 cards
C8_Witness ==
    /\ game.state = "flop"
    /\ HolesOK
    /\ \E i \in DOMAIN game_players : game_players[i].bet_amount = FOLDED

\* stacks and bets of the players and the pot in the database d
Chips(d) ==
    <<[i \in DOMAIN d.game_players |->
          <<d.game_players[i].user_id, d.game_players[i].player_money,
            d.game_players[i].bet_amount>>],
      d.game.pot_money>>

\* C9: check(gameId, userId) of the acting player succeeds if and only if the
\* player's bet equals the current bet, and the database it commits has the
\* stacks, the bets and the pot it found.
C9_Check ==
    \A u \in Users :
        getCurrentTurn(Db) = u =>
            /\ check(Db, u).ok <=> getPlayerBet(Db, u) = getCurrentBet(Db)
            /\ check(Db, u).ok => Chips(check(Db, u).db) = Chips(Db)

\* C9 witness: a check was accepted and, another player being still to act,
\* no street was dealt after it
C9_Witness ==
    /\ response = [status |-> 200, body |-> "check", accepted |-> TRUE]
    /\ \E i \in DOMAIN game_players :
          game_players[i].bet_amount >= 0 /\ ~game_players[i].has_acted

\* the acting player u faces a bet and has at least 1 chip
FacesBet(u) ==
    /\ getCurrentTurn(Db) = u
    /\ u \in PlayerSet(Db)
    /\ getCurrentBet(Db) > getPlayerBet(Db, u)
    /\ PlayerRow(Db, u).player_money >= 1

\* call(gameId, userId) succeeds and moves amount chips from the stack of u
\* to the pot
CallMoves(u, amount) ==
    /\ call(Db, u).ok
    /\ PlayerRow(call(Db, u).db, u).player_money = PlayerRow(Db, u).player_money - amount
    /\ call(Db, u).db.game.pot_money = game.pot_money + amount

WithinStack(u, amount) ==
    raise(Db, u, amount).ok =>
        amount <= getPlayerBet(Db, u) + PlayerRow(Db, u).player_money

InPlay == game.state \in {"pre-flop", "flop", "turn", "river"}

\* the players who have not folded
NonFolded == {i \in DOMAIN game_players : game_players[i].bet_amount # FOLDED}

\* the players who are all-in: not folded, stack 0
AllInPlayers == {i \in NonFolded : game_players[i].player_money = 0}

\* C12: once a player has folded they stay folded until the hand ends, also
\* across the bet reset of a street deal, and are never the current-turn
\* player again.
C12_FoldedStays ==
    [][InPlay =>
         \A i \in DOMAIN game_players :
             game_players[i].bet_amount = FOLDED =>
                 /\ game_players'[i].bet_amount = FOLDED
                 /\ game.current_turn_user_id' # game_players[i].user_id]_vars

\* C13: the current turn is never assigned to a player who is all-in.
C13_NoTurnForAllIn ==
    InPlay =>
        \A i \in AllInPlayers : game.current_turn_user_id # game_players[i].user_id


\* the players able to act: not folded and not all-in
AblePlayers == {i \in NonFolded : game_players[i].player_money > 0}

\* every player able to act has acted and has committed the current bet
RoundDone ==
    \A i \in AblePlayers :
        /\ game_players[i].has_acted
        /\ game_players[i].bet_amount = getCurrentBet(Db)

C15_AdvancesByItself ==
    InPlay => ~(AblePlayers # {} /\ RoundDone)

\* C16: when only one non-folded player remains the hand ends at once: no
\* hand is in play with exactly one player who has not folded.
C16_LastPlayerWins ==
    InPlay => Cardinality(NonFolded) # 1

\* C17: when all remaining non-folded players are all-in the remaining
\* betting rounds are skipped and the hand goes to the showdown: no hand is
\* in play, waiting for an action, with two or more non-folded players who
\* all have no chips.
C17_AllInRunsOut ==
    ~(/\ InPlay
      /\ Cardinality(NonFolded) >= 2
      /\ AllInPlayers = NonFolded)

\* the players of d that have not folded
Live(d) == {u \in PlayerSet(d) : PlayerRow(d, u).bet_amount # FOLDED}

\* the hand of player u: the hole cards and the board
HandOf(d, u) == evaluateHand(HoleCards(d, u) \cup d.community_cards)

\* the players that have not folded and whose hand no such player beats
BestHands(d) ==
    {u \in Live(d) : \A v \in Live(d) : compareHands(HandOf(d, u), HandOf(d, v)) >= 0}

\* what player u has in e above the stack in d
Gain(d, e, u) == PlayerRow(e, u).player_money - PlayerRow(d, u).player_money

\* the databases runShowdown is called on: the river tables in which a
\* betting service has just completed the round
AtShowdown ==
    {r.db : r \in {x \in {BettingService(Db, kind, u, amount) :
                             kind \in Kinds, u \in PlayerSet(Db), amount \in RaiseAmounts} :
                      x.ok /\ isBettingRoundComplete(x.db)}}

\* e is d with the pot of d paid to the best hands of d and the game over
PaysBest(d, e, best) ==
    /\ \A u \in PlayerSet(d) \ best : Gain(d, e, u) = 0
    /\ \A u \in best : Gain(d, e, u) >= get(d).pot_money \div Cardinality(best)
    /\ SumOver([u \in best |-> Gain(d, e, u)], best) = get(d).pot_money
    /\ get(e).pot_money = 0
    /\ get(e).state = "game-over"

\* C18: at the showdown the pot is paid to exactly the players that have not
\* folded and hold a best hand (tied hands share it; a weaker hand or a folded
\* player gets nothing); afterwards the pot is 0 and the game is over.
C18_Showdown ==
    OnRiver =>
        \A d \in AtShowdown :
            runShowdown(d).ok => PaysBest(d, runShowdown(d).db, BestHands(d))

\* a showdown has paid a winner and left a player who stayed in the hand
\* with less than the buy-in
C18_Witness ==
    /\ game.state = "game-over"
    /\ game.pot_money = 0
    /\ response.status = 200
    /\ Cardinality(community_cards) = 5
    /\ \E i, j \in NonFolded :
          /\ game_players[i].player_money > BUY_IN
          /\ game_players[j].player_money < BUY_IN

\* the rows of the players in best, in the order of getPlayersWithStats: by
\* seat position, the dealer's seat 1 first
InSeatOrder(d, best) == SelectSeq(getPlayersWithStats(d), LAMBDA p : p.user_id \in best)

\* the seats between the dealer's seat and the seat of row p, clockwise
FromDealer(d, p) ==
    LET dealer == CHOOSE q \in Range(d.game_players) : q.role = "dealer"
    IN (p.position - dealer.position - 1) % Len(d.game_players)

\* the player of best that is earliest clockwise from the dealer
EarliestFromDealer(d, best) ==
    CHOOSE u \in best :
        \A v \in best : FromDealer(d, PlayerRow(d, u)) <= FromDealer(d, PlayerRow(d, v))

\* every player of best gets the share and one player the whole remainder
RemainderToOne(d, e, best, first) ==
    \A u \in best :
        Gain(d, e, u) = (get(d).pot_money \div Cardinality(best))
                        + (IF u = first THEN get(d).pot_money % Cardinality(best) ELSE 0)

OneChipEach(d, e, winners) ==
    \A i \in DOMAIN winners :
        Gain(d, e, winners[i].user_id) =
            (get(d).pot_money \div Len(winners))
            + (IF i <= get(d).pot_money % Len(winners) THEN 1 ELSE 0)

Funded == {i \in DOMAIN game_players : game_players[i].player_money > 0}

\* the answer r to a start request of user u: accepted only from the owner,
\* in the lobby, with two funded players; refused without a write
StartChecked(u, r) ==
    /\ r.accepted =>
          /\ u = game.created_by
          /\ game.state = "lobby"
          /\ Cardinality(Funded) >= 2
          /\ r.db # Db
    /\ ~r.accepted => r.db = Db

\* C21: a start request is accepted only if the requester is the owner of
\* the game, the phase allows a new hand and at least 2 players with chips
\* are seated; a rejected start leaves the game unchanged.
C21_Start ==
    \A u \in Users, k \in 1 .. MaxShuffle : StartChecked(u, StartRoute(Db, u, k))

\* the owner's start request has just been accepted: blinds posted, two hole
\* cards each, nobody has acted
C21_Witness ==
    /\ game.state = "pre-flop"
    /\ game.pot_money = SMALL_BLIND + BIG_BLIND
    /\ response = [status |-> 302, body |-> "/games/:id", accepted |-> TRUE]
    /\ \A i \in DOMAIN game_players :
          /\ ~game_players[i].has_acted
          /\ Cardinality(HoleCards(Db, game_players[i].user_id)) = 2

\* the row of the player on seat position pos
OnSeat(rows, pos) == CHOOSE r \in Range(rows) : r.position = pos

\* the seat immediately left of seat pos at a table of n players
LeftOf(pos, n) == (pos % n) + 1

\* the row of the big blind
BigBlindRow(rows) == CHOOSE r \in Range(rows) : r.role = "big_blind"

C24_Original ==
    \A u \in Users :
        (isMyTurn(Db, u) /\ check(Db, u).ok) =>
            PlayerRow(TimeoutRoute(Db, u).db, u).bet_amount # FOLDED

\* C24: when the turn timer of the acting player expires the automatic
\* action is a fold, whether or not a check is legal: the request is the
\* fold request, it is accepted and the player is folded.
C24_AutoFold ==
    \A u \in Users :
        isMyTurn(Db, u) =>
            /\ TimeoutRoute(Db, u) = BettingRoute(Db, "fold", u, 0)
            /\ TimeoutRoute(Db, u).accepted
            /\ PlayerRow(TimeoutRoute(Db, u).db, u).bet_amount = FOLDED

\* heads-up, the big blind was folded when the small blind had called and a
\* check was legal: the fold completed the round and the flop was dealt
C24_Witness ==
    /\ response = [status |-> 200, body |-> "fold", accepted |-> TRUE]
    /\ game.state = "flop"
    /\ game.pot_money = 2 * BIG_BLIND
    /\ Len(game_players) = 2
    /\ game_players[1].player_money = BUY_IN - BIG_BLIND
    /\ game_players[1].bet_amount = 0
    /\ game_players[2].player_money = BUY_IN - BIG_BLIND
    /\ game_players[2].bet_amount = FOLDED

\* the hole cards of the players other than u
OthersCards(d, u) ==
    {c \in DOMAIN d.player_cards : d.player_cards[c].owner_player_id \notin {NULL, u}}

\* cards of the bottom of the deck
BottomCards == {DECK_SIZE - 1, DECK_SIZE}

\* the cards user u has not seen: the hole cards of the others, and the
\* bottom of the deck while it is neither dealt nor on the board
Concealed(d, u) ==
    OthersCards(d, u) \cup ((BottomCards \cap Undealt(d)) \ d.community_cards)

\* the hand in which the cards c1 and c2 have changed places
Swapped(d, c1, c2) ==
    [d EXCEPT !.player_cards =
        [c \in DOMAIN d.player_cards |->
            IF c = c1 THEN d.player_cards[c2]
            ELSE IF c = c2 THEN d.player_cards[c1]
            ELSE d.player_cards[c]]]

\* the cards of the state view
CardsIn(view) == Range(view.my_cards) \cup Range(view.community_cards)

\* C25: the state the server sends to user u holds the hole cards of u and
\* no hole card of another player, and it is the same for two hands that
\* differ only in the hole cards of another player.
C25_OwnCardsOnly ==
    response.body = "game:state" =>
        \A u \in Users :
            /\ Range(GameState(Db, u).my_cards) = HoleCards(Db, u)
            /\ CardsIn(GameState(Db, u)) \cap OthersCards(Db, u) = {}
            /\ \A c1 \in OthersCards(Db, u), c2 \in Concealed(Db, u) :
                  GameState(Swapped(Db, c1, c2), u) = GameState(Db, u)

\* the state was sent during a hand of three players who hold two cards each
C25_Witness ==
    /\ response = [status |-> 200, body |-> "game:state", accepted |-> FALSE]
    /\ InPlay
    /\ Len(game_players) = 3
    /\ \A u \in Users : Cardinality(HoleCards(Db, u)) = 2

\* no user has two rows in game_players
SeatedOnce ==
    \A i, j \in DOMAIN game_players :
        game_players[i].user_id = game_players[j].user_id => i = j

\* the answers of a join refused as in progress or as full
JoinRefusals == {"/lobby?error=game_started", "/lobby?error=game_full"}

\* C26: under any interleaving of join requests a game never has more than
\* max_players players, no user is seated twice, no player is added once the
\* phase is no longer lobby, and a join refused as full or in progress
\* leaves the game unchanged.
C26_Joins ==
    [][/\ Len(game_players') <= game'.max_players
       /\ SeatedOnce'
       /\ game.state # "lobby" => PlayerSet(Db') \subseteq PlayerSet(Db)
       /\ (response' # response /\ response'.body \in JoinRefusals) => Db' = Db]_vars

\* the hands evaluateHand gives on the hole cards and boards of the showdown
\* tables
EvaluatedHands ==
    {evaluateHand(h \cup b) : <<h, b>> \in {x \in HoleHands \X ShowBoards : x[1] \cap x[2] = {}}}

\* the sign of x
Sign(x) == IF x > 0 THEN 1 ELSE IF x < 0 THEN -1 ELSE 0

\* the first index at which the tiebreaker ranks of a and b differ, 0 if none
FirstDifference(a, b) ==
    IF \E i \in DOMAIN a.ranks \cap DOMAIN b.ranks : a.ranks[i] # b.ranks[i]
      THEN CHOOSE i \in DOMAIN a.ranks \cap DOMAIN b.ranks :
               /\ a.ranks[i] # b.ranks[i]
               /\ \A j \in 1 .. i - 1 : a.ranks[j] = b.ranks[j]
      ELSE 0

\* the order by category first, then by the first tiebreaker rank that differs
Lexicographic(a, b) ==
    IF a.category # b.category THEN Sign(a.category - b.category)
    ELSE IF FirstDifference(a, b) # 0
      THEN Sign(a.ranks[FirstDifference(a, b)] - b.ranks[FirstDifference(a, b)])
    ELSE 0

\* compareHands orders the hands a, b, c as a total order does
TotalOrder(a, b, c) ==
    /\ compareHands(a, a) = 0
    /\ compareHands(a, b) \in {-1, 0, 1}
    /\ compareHands(a, b) = 0 - compareHands(b, a)
    /\ compareHands(a, c) = 0 - compareHands(c, a)
    /\ (compareHands(a, b) >= 0 /\ compareHands(b, c) >= 0) => compareHands(a, c) >= 0
    /\ (compareHands(a, c) >= 0 /\ compareHands(c, b) >= 0) => compareHands(a, b) >= 0
    /\ (compareHands(c, a) >= 0 /\ compareHands(a, b) >= 0) => compareHands(c, b) >= 0
    /\ compareHands(a, b) = Lexicographic(a, b)
    /\ compareHands(a, c) = Lexicographic(a, c)
    /\ compareHands(a, b) = 0 => (a.category = b.category /\ a.ranks = b.ranks)
    /\ compareHands(a, c) = 0 => (a.category = c.category /\ a.ranks = c.ranks)

\* the evaluated hands of the players at the table
TableHands == {HandOf(Db, u) : u \in PlayerSet(Db)}

\* C27: compareHands is a total order on evaluated hands: a hand compares
\* equal to itself, swapping the arguments negates the result, the order is
\* transitive, it is the lexicographic order by category and then by the
\* tiebreaker ranks, and two hands compare equal only when category and
\* tiebreaker ranks are the same.  Checked on the hands of the players at the
\* table against each other and against every evaluated hand.
C27_TotalOrder ==
    \A a, b \in TableHands : \A c \in EvaluatedHands : TotalOrder(a, b, c)

\* the showdown has compared a winning hand with a tied one and a beaten one
C27_Witness ==
    /\ game.state = "game-over"
    /\ \E u, v, w \in PlayerSet(Db) :
        /\ u # v
        /\ compareHands(HandOf(Db, u), HandOf(Db, v)) = 0
        /\ compareHands(HandOf(Db, u), HandOf(Db, w)) = 1
        /\ HandOf(Db, u).category = HandOf(Db, w).category
        /\ PlayerRow(Db, u).player_money > BUY_IN
        /\ PlayerRow(Db, w).player_money < BUY_IN

\* the ranks of the cards, and of the cards of suit s
RanksOf(cards) == {normalizeCard(c).rank : c \in cards}
SuitedRanks(cards, s) == {normalizeCard(c).rank : c \in {x \in cards : normalizeCard(x).suit = s}}

\* ace, two, three, four, five
WheelRanks == {14, 2, 3, 4, 5}

\* the wheel in one suit
SuitedWheel(cards) == \E s \in 0 .. 3 : WheelRanks \subseteq SuitedRanks(cards, s)

\* the wheel is the best five cards: no six for a higher straight, no five
\* cards of one suit
PlainWheel(cards) ==
    /\ WheelRanks \subseteq RanksOf(cards)
    /\ 6 \notin RanksOf(cards)
    /\ \A s \in 0 .. 3 : Cardinality({x \in cards : normalizeCard(x).suit = s}) < 5

\* the tie key of the wheel: five high, the ace as 1
WheelKey == <<5, 4, 3, 2, 1>>

\* hand, evaluated from cards, honours the wheel: a suited wheel is a
\* straight flush and a plain one a straight with the ace as 1, cards that
\* hold a wheel are never ranked below a straight, and a wheel loses to
\* every six-high straight of its category and beats every hand c of a
\* lower category
WheelRanked(cards, hand, c) ==
    /\ SuitedWheel(cards) => hand = [category |-> 8, ranks |-> WheelKey]
    /\ PlainWheel(cards) => hand = [category |-> 4, ranks |-> WheelKey]
    /\ WheelRanks \subseteq RanksOf(cards) => hand.category >= 4
    /\ (hand.category \in {4, 8} /\ hand.ranks = WheelKey) =>
          /\ (c.category = hand.category /\ c.ranks[1] = 6) => compareHands(hand, c) = -1
          /\ (c.category = hand.category /\ c.ranks[1] = 6) => compareHands(c, hand) = 1
          /\ c.category < hand.category => compareHands(hand, c) = 1
          /\ c.category < hand.category => compareHands(c, hand) = -1

\* the cards of player u: the hole cards and the board
CardsOf(d, u) == HoleCards(d, u) \cup d.community_cards

\* the cards of every player at the table with the hand they evaluate to
TableCards == {<<CardsOf(Db, u), HandOf(Db, u)>> : u \in PlayerSet(Db)}

\* C28: cards that contain A-2-3-4-5 are evaluated as a straight, or as a
\* straight flush when the five are of one suit, with the tie key 5-4-3-2-1
\* (the ace counts as 1); that hand ranks strictly below every six-high
\* straight of the same category and strictly above every hand of a lower
\* category.  Checked for the cards of every player at the table against the
\* hands of the other players and every evaluated hand.
C28_Wheel ==
    \A p \in TableCards : \A c \in EvaluatedHands \cup {q[2] : q \in TableCards} :
        WheelRanked(p[1], p[2], c)

\* the showdown between a wheel, a six-high straight and three of a kind:
\* the six-high straight took the pot
C28_Witness ==
    /\ game.state = "game-over"
    /\ \E u, v, w \in PlayerSet(Db) :
        /\ PlainWheel(CardsOf(Db, u))
        /\ HandOf(Db, v) = [category |-> 4, ranks |-> <<6, 5, 4, 3, 2>>]
        /\ HandOf(Db, w).category = 3
        /\ PlayerRow(Db, v).player_money > BUY_IN
        /\ PlayerRow(Db, u).player_money < BUY_IN

\* the deal that was called on the database before and left the database
\* after has reset the round and moved no chips
DealFrame(before, after) ==
    /\ DOMAIN after.game_players = DOMAIN before.game_players
    /\ \A i \in DOMAIN before.game_players :
        /\ after.game_players[i].user_id = before.game_players[i].user_id
        /\ before.game_players[i].bet_amount # FOLDED => after.game_players[i].bet_amount = 0
        /\ before.game_players[i].bet_amount = FOLDED => after.game_players[i].bet_amount = FOLDED
        /\ after.game_players[i].has_acted = FALSE
        /\ after.game_players[i].player_money = before.game_players[i].player_money
    /\ after.game.pot_money = before.game.pot_money

\* the accepted action of user u that ended the round, and the deal after it,
\* lead from the database d to the database e
DealtAfter(d, e, u, kind, amount) ==
    /\ BettingService(d, kind, u, amount).ok
    /\ BettingRoute(d, kind, u, amount).db = e
    /\ DealFrame(BettingService(d, kind, u, amount).db, e)

AbleToAct(d) ==
    {u \in PlayerSet(d) : /\ PlayerRow(d, u).bet_amount # FOLDED
                          /\ PlayerRow(d, u).player_money > 0}

CurrentBet(d) == SetMax({0} \cup {r.bet_amount : r \in Range(d.game_players)})

\* the players of d still to act in the open round: not folded, with chips,
\* and either not yet heard in this round or behind the current bet
Eligible(d) ==
    {u \in AbleToAct(d) : \/ ~PlayerRow(d, u).has_acted
                          \/ PlayerRow(d, u).bet_amount < CurrentBet(d)}

\* the seats from the seat of user a clockwise to the seat of user u, from 1
\* (the next seat) to the number of players (the seat of a itself)
SeatsAfter(d, a, u) ==
    LET k == (PlayerRow(d, u).position - PlayerRow(d, a).position) % Len(d.game_players)
    IN IF k = 0 THEN Len(d.game_players) ELSE k

\* the player of the set among that sits next clockwise after user a
NextAfter(d, a, among) ==
    CHOOSE u \in among : \A v \in among : SeatsAfter(d, a, u) <= SeatsAfter(d, a, v)

\* an accepted betting action was served and the hand is in the same round
RoundStaysOpen ==
    /\ InPlay
    /\ game'.state = game.state
    /\ response'.status = 200 /\ response'.accepted /\ response'.body \in Kinds

\* C31: after an accepted action that leaves the betting round open, the
\* turn is on the next eligible player clockwise after the actor, wrapping
\* from the highest seat to the lowest: it is not on the actor while another
\* eligible player exists, and no eligible player is skipped.
C31_TurnAdvances ==
    [][(RoundStaysOpen /\ Eligible(Db') \ {game.current_turn_user_id} # {}) =>
          game'.current_turn_user_id =
              NextAfter(Db', game.current_turn_user_id,
                        Eligible(Db') \ {game.current_turn_user_id})]_vars

\* on the flop the player on seat 3 has raised: the turn went past the
\* highest seat and the folded player of seat 1 to the player of seat 2
C31_Witness ==
    /\ game.state = "flop"
    /\ response = [status |-> 200, body |-> "raise", accepted |-> TRUE]
    /\ Len(game_players) = 3
    /\ OnSeat(game_players, 1).bet_amount = FOLDED
    /\ OnSeat(game_players, 3).bet_amount > 0
    /\ OnSeat(game_players, 3).has_acted
    /\ OnSeat(game_players, 2).bet_amount = 0
    /\ game.current_turn_user_id = OnSeat(game_players, 2).user_id

C34_OverIsOver ==
    game.state = "game-over" =>
        \A u \in Users, kind \in Kinds, amount \in RaiseAmounts :
            /\ ~BettingRoute(Db, kind, u, amount).accepted
            /\ BettingRoute(Db, kind, u, amount).db = Db

\* C35: in every state of a hand in progress at least one player has not
\* folded.
C35_SomeoneLeft == InPlay => NonFolded # {}

\* C36: when the player whose turn it is sends nothing, the hand still
\* progresses: the turn moves on from that player, or the hand ends.
C36_Progress ==
    \A u \in Users :
        (InPlay /\ game.current_turn_user_id = u)
            ~> (~InPlay \/ game.current_turn_user_id # u)

\* C37: the chip stack of every player is at least 0 in every reachable
\* state.
C37_StacksNotNegative ==
    \A i \in DOMAIN game_players : game_players[i].player_money >= 0

\* the sets of 5 cards and more among cards
FiveAndMore(cards) == {T \in SUBSET cards : Cardinality(T) >= 5}

\* evaluateHand on every set of 5 cards and more among cards
Evaluations(cards) == [T \in FiveAndMore(cards) |-> evaluateHand(T)]

\* the evaluations of the 5-card subsets of T
FiveCardHands(evaluated, T) ==
    {evaluated[five] : five \in {F \in DOMAIN evaluated : Cardinality(F) = 5 /\ F \subseteq T}}

\* hand is at least as strong as every 5-card hand in fives and as strong as
\* one of them
Strongest(hand, fives) ==
    /\ \A h \in fives : compareHands(hand, h) >= 0
    /\ \E h \in fives : compareHands(hand, h) = 0

\* the cards each player holds with the board, evaluated
TableEvaluations == {Evaluations(CardsOf(Db, u)) : u \in PlayerSet(Db)}

\* C38: for every set of 5 to 7 of the cards a player holds with the board,
\* evaluateHand returns the strongest 5-card hand of the set.
C38_Strongest ==
    \A evaluated \in TableEvaluations :
        \A T \in DOMAIN evaluated : Strongest(evaluated[T], FiveCardHands(evaluated, T))

\* the showdown has evaluated the seven cards of a player as a full house,
\* and five of the seven make one pair only
C38_Witness ==
    /\ game.state = "game-over"
    /\ \E p \in TableCards :
          /\ Cardinality(p[1]) = 7
          /\ p[2].category = 6
          /\ \E five \in FiveAndMore(p[1]) :
                Cardinality(five) = 5 /\ evaluateHand(five).category = 1

\* the callbacks of game g that have not ended
TimersOf(g) == {i \in DOMAIN timers : timers[i].gameId = g}

\* C39: whatever the number of calls of scheduleGameCleanup for a game, the
\* game has exactly one timer while it is scheduled and none otherwise, one
\* scheduling attempts the deletion at most once, and a game whose attempt has
\* ended, deleted or failed, is not scheduled any more.
C39_Idempotent ==
    \A g \in GameIds :
        /\ Cardinality(TimersOf(g)) = IF g \in scheduled THEN 1 ELSE 0
        /\ Len(attempts[g]) <= 1
        /\ g \in scheduled <=> calls[g] >= 1
        /\ g \in scheduled => attempts[g] \in {<<>>, <<"running">>}
        /\ \A i \in TimersOf(g) :
              timers[i].stage = "pending" <=> attempts[g] = <<>>

\* a game was scheduled three times before its timer fired and has one pending
\* timer, and another game is unscheduled after its deletion failed
C39_Witness ==
    \E g, h \in GameIds :
        /\ calls[g] = MaxCalls
        /\ \E i \in TimersOf(g) : timers[i].stage = "pending"
        /\ attempts[h] = <<"failed">>
        /\ h \notin scheduled

\* the seat of every player, by user
SeatOf == [u \in PlayerSet(Db) |-> PlayerRow(Db, u).position]

\* the seats are exactly 1 .. n, one player on each
SeatsInOrder ==
    /\ {SeatOf[u] : u \in PlayerSet(Db)} = 1 .. Len(game_players)
    /\ \A u, v \in PlayerSet(Db) : SeatOf[u] = SeatOf[v] => u = v

\* C40: once the game is started the seats of the players are exactly 1 .. n,
\* no two players on one seat.
C40_Seats == HandStarted => SeatsInOrder
====
